---- MODULE Spec2Model ----
(***************************************************************************)
(* Model of the building viewer: the XML parser (utils.js), the viewer     *)
(* (viewer.js), the UI controller (ui-controller.js) and the application   *)
(* (main.js).                                                              *)
(*                                                                         *)
(* JavaScript values are represented as follows.                           *)
(*   - null is the empty sequence <<>>, a string s is <<s>>  (one element) *)
(*   - a text node is a sequence of one-character strings                  *)
(*   - a number is a record [k, v]: k = "fin" with v the value in halves   *)
(*     (v = 2 * value, exact for the integer inputs and the /2 and *2.5    *)
(*     of the framing code), or k = "nan" / "inf" / "ninf" with v = 0      *)
(*   - a call that may throw yields [ok, val, err]                         *)
(***************************************************************************)
EXTENDS Integers, Sequences, FiniteSets, TLC

\* ------------------------------------------------------------ JS values

Null == <<>>

Str(s) == <<s>>

\* JS truthiness of a string-or-null value: null and "" are falsy.
Truthy(v) == v # Null /\ v[1] # ""

Ok(v) == [ok |-> TRUE, val |-> v, err |-> ""]

Err(e) == [ok |-> FALSE, val |-> <<>>, err |-> e]

Fin(h) == [k |-> "fin", v |-> h]

NaN == [k |-> "nan", v |-> 0]

PosInf == [k |-> "inf", v |-> 0]

NegInf == [k |-> "ninf", v |-> 0]

\* A finite number given by its integer value.
Num(n) == Fin(n + n)

IsNumeric(x) == x.k # "nan"

Digits == {"0", "1", "2", "3", "4", "5", "6", "7", "8", "9"}

DigitVal(c) ==
  CASE c = "0" -> 0 [] c = "1" -> 1 [] c = "2" -> 2 [] c = "3" -> 3
    [] c = "4" -> 4 [] c = "5" -> 5 [] c = "6" -> 6 [] c = "7" -> 7
    [] c = "8" -> 8 [] OTHER -> 9

RECURSIVE SkipSpaces(_)
SkipSpaces(t) ==
  IF t # <<>> /\ Head(t) = " " THEN SkipSpaces(Tail(t)) ELSE t

\* The longest digit prefix of t, as <<value, number of digits>>.
RECURSIVE DigitPrefix(_, _, _)
DigitPrefix(t, acc, n) ==
  IF t # <<>> /\ Head(t) \in Digits
  THEN DigitPrefix(Tail(t), acc * 10 + DigitVal(Head(t)), n + 1)
  ELSE <<acc, n>>

\* parseFloat on a text: leading white space is skipped, then an optional
\* sign and the longest numeric prefix are read; what follows is ignored; no
\* numeric prefix gives NaN. (The texts of this model hold no decimal point,
\* exponent or "Infinity".)
parseFloat(t) ==
  LET s == SkipSpaces(t)
      signed == s # <<>> /\ Head(s) \in {"-", "+"}
      neg == s # <<>> /\ Head(s) = "-"
      body == IF signed THEN Tail(s) ELSE s
      dp == DigitPrefix(body, 0, 0)
  IN  IF dp[2] = 0 THEN NaN
      ELSE IF neg THEN Num(0 - dp[1]) ELSE Num(dp[1])

\* ------------------------------------------------------------ utils.js

\* A CartesianPoint element is the sequence of the texts of its Coordinate
\* children.
extractCoordinates(cartesianPoint) ==
  IF Len(cartesianPoint) # 3
  THEN Err("Invalid CartesianPoint: expected 3 coordinates")
  ELSE Ok([x |-> parseFloat(cartesianPoint[1]),
           y |-> parseFloat(cartesianPoint[2]),
           z |-> parseFloat(cartesianPoint[3])])

\* The forEach of extractPlanarGeometry: the first point that throws ends it.
RECURSIVE ExtractPoints(_, _)
ExtractPoints(points, vertices) ==
  IF points = <<>> THEN Ok(vertices)
  ELSE LET c == extractCoordinates(Head(points))
       IN  IF ~c.ok THEN Err(c.err)
           ELSE ExtractPoints(Tail(points), Append(vertices, c.val))

\* A PlanarGeometry element is [polyLoop]: <<>> without a PolyLoop child,
\* else <<points>>, the sequence of its CartesianPoint elements.
extractPlanarGeometry(planarGeometry) ==
  IF planarGeometry.polyLoop = <<>>
  THEN Err("PlanarGeometry missing PolyLoop element")
  ELSE LET cartesianPoints == planarGeometry.polyLoop[1]
       IN  IF Len(cartesianPoints) < 3
           THEN Err("PolyLoop must contain at least 3 CartesianPoints")
           ELSE ExtractPoints(cartesianPoints, <<>>)

\* A Surface element is [id, surfaceType, exposedToSun, name, adjacentSpace,
\* planarGeometry]: attributes are null or a string, name is null or the
\* text of the Name child, adjacentSpace is <<>> without an AdjacentSpaceId
\* child and else <<spaceIdRef>>, planarGeometry is <<>> or <<element>>.
parseSurface(surface) ==
  LET id == surface.id
      surfaceType == surface.surfaceType
      exposedToSun == (surface.exposedToSun = Str("true"))
      name == surface.name
      adjacentSpaceId == IF surface.adjacentSpace # <<>>
                         THEN surface.adjacentSpace[1] ELSE Null
  IN  IF surface.planarGeometry = <<>>
      THEN Err("Surface missing PlanarGeometry")
      ELSE LET g == extractPlanarGeometry(surface.planarGeometry[1])
           IN  IF ~g.ok THEN Err(g.err)
               ELSE Ok([id |-> id, surfaceType |-> surfaceType,
                        exposedToSun |-> exposedToSun, name |-> name,
                        adjacentSpaceId |-> adjacentSpaceId,
                        vertices |-> g.val])

\* The document DOMParser gives for a text that is not well-formed: it holds
\* a parsererror element and nothing of the building.
ParserErrorDocument ==
  [root |-> "parsererror", nested |-> {}, name |-> Null, surfaces |-> <<>>]

\* An XML text is [wellFormed, tree]. A document is [root, nested, name,
\* surfaces]: the root's tag, the tags among Building and parsererror that
\* occur below the root, the first Building's name attribute, and the
\* Surface elements in document order.
parseFromString(xmlString) ==
  IF xmlString.wellFormed THEN xmlString.tree ELSE ParserErrorDocument

\* xmlDoc.querySelector(tag) # null
HasElement(xmlDoc, tag) == xmlDoc.root = tag \/ tag \in xmlDoc.nested

parseXMLString(xmlString) ==
  LET xmlDoc == parseFromString(xmlString)
  IN  IF HasElement(xmlDoc, "parsererror")
      THEN Err("XML parsing error")
      ELSE Ok(xmlDoc)

\* The forEach of parseBuildingXML: a surface that throws is skipped.
RECURSIVE ParseSurfaces(_, _)
ParseSurfaces(surfaceElements, surfaces) ==
  IF surfaceElements = <<>> THEN surfaces
  ELSE LET s == parseSurface(Head(surfaceElements))
       IN  ParseSurfaces(Tail(surfaceElements),
                         IF s.ok THEN Append(surfaces, s.val) ELSE surfaces)

\* parseBuildingXML without its test for a Building element.
parseBuildingXML_NoBuildingTest(xmlString) ==
  LET d == parseXMLString(xmlString)
  IN  IF ~d.ok THEN Err(d.err)
      ELSE Ok([buildingName |-> d.val.name,
               surfaces |-> ParseSurfaces(d.val.surfaces, <<>>)])

parseBuildingXML(xmlString) ==
  LET d == parseXMLString(xmlString)
  IN  IF ~d.ok THEN Err(d.err)
      ELSE IF ~HasElement(d.val, "Building")
      THEN Err("No Building element found in XML")
      ELSE Ok([buildingName |-> d.val.name,
               surfaces |-> ParseSurfaces(d.val.surfaces, <<>>)])

\* ------------------------------------------------------------ JS numbers

JsMin(a, b) ==
  IF a.k = "nan" \/ b.k = "nan" THEN NaN
  ELSE IF a.k = "ninf" \/ b.k = "ninf" THEN NegInf
  ELSE IF a.k = "inf" THEN b
  ELSE IF b.k = "inf" THEN a
  ELSE IF a.v <= b.v THEN a ELSE b

JsMax(a, b) ==
  IF a.k = "nan" \/ b.k = "nan" THEN NaN
  ELSE IF a.k = "inf" \/ b.k = "inf" THEN PosInf
  ELSE IF a.k = "ninf" THEN b
  ELSE IF b.k = "ninf" THEN a
  ELSE IF a.v >= b.v THEN a ELSE b

JsNeg(a) ==
  CASE a.k = "fin" -> Fin(0 - a.v)
    [] a.k = "inf" -> NegInf
    [] a.k = "ninf" -> PosInf
    [] OTHER -> NaN

JsAdd(a, b) ==
  IF a.k = "nan" \/ b.k = "nan" THEN NaN
  ELSE IF a.k = "fin" /\ b.k = "fin" THEN Fin(a.v + b.v)
  ELSE IF a.k = "fin" THEN b
  ELSE IF b.k = "fin" THEN a
  ELSE IF a.k = b.k THEN a ELSE NaN

JsSub(a, b) == JsAdd(a, JsNeg(b))

\* a / 2; the finite values halved here are sums of two vertex coordinates,
\* which are whole numbers, so the quotient is exact in halves.
JsHalf(a) == IF a.k = "fin" THEN Fin(a.v \div 2) ELSE a

\* a * 2.5; the finite values scaled here are differences of vertex
\* coordinates, which are whole numbers (even in halves).
JsTimes2p5(a) == IF a.k = "fin" THEN Fin((a.v * 5) \div 2) ELSE a

\* ------------------------------------------------------------ viewer.js

\* Own properties of colorMap.
colorMap ==
  [ExteriorWall |-> 13935988, InteriorWall |-> 15263976, Roof |-> 9127187,
   SlabOnGrade |-> 8421504, Ceiling |-> 16777215, Floor |-> 11119017,
   Shade |-> 9498256, UndergroundWall |-> 6636321]

DefaultGray == 13421772

\* The properties every object literal inherits from Object.prototype; each
\* holds a function (or, for __proto__, an object): a truthy non-number.
ObjectPrototypeKeys ==
  {"constructor", "toString", "toLocaleString", "valueOf", "hasOwnProperty",
   "isPrototypeOf", "propertyIsEnumerable", "__proto__",
   "__defineGetter__", "__defineSetter__", "__lookupGetter__",
   "__lookupSetter__"}

\* The property key a string-or-null value converts to.
ToPropertyKey(v) == IF v = Null THEN "null" ELSE v[1]

ColorValue(n) == [t |-> "number", n |-> n, f |-> ""]

InheritedValue(key) == [t |-> "object", n |-> 0, f |-> key]

\* colorMap[surfaceType] || 0xcccccc
getSurfaceColor(surfaceType) ==
  LET key == ToPropertyKey(surfaceType)
  IN  IF key \in DOMAIN colorMap THEN ColorValue(colorMap[key])
      ELSE IF key \in ObjectPrototypeKeys THEN InheritedValue(key)
      ELSE ColorValue(DefaultGray)

\* The for loop of triangulateSurface, from i on.
RECURSIVE FanLoop(_, _, _)
FanLoop(i, n, indices) ==
  IF i < n - 1
  THEN FanLoop(i + 1, n, indices \o <<0, i, i + 1>>)
  ELSE indices

\* triangulateSurface with the quad split along the other diagonal.
triangulateSurface_OtherDiagonal(vertices) ==
  IF Len(vertices) < 3 THEN Err("Surface must have at least 3 vertices")
  ELSE IF Len(vertices) = 4 THEN Ok(<<0, 1, 3, 1, 2, 3>>)
  ELSE Ok(FanLoop(1, Len(vertices), <<>>))

\* triangulateSurface without its test of the vertex count.
triangulateSurface_NoCountTest(vertices) ==
  IF Len(vertices) = 4 THEN Ok(<<0, 1, 2, 0, 2, 3>>)
  ELSE Ok(FanLoop(1, Len(vertices), <<>>))

triangulateSurface(vertices) ==
  IF Len(vertices) < 3 THEN Err("Surface must have at least 3 vertices")
  ELSE IF Len(vertices) = 4 THEN Ok(<<0, 1, 2, 0, 2, 3>>)
  ELSE Ok(FanLoop(1, Len(vertices), <<>>))

RECURSIVE FlatPositions(_)
FlatPositions(vertices) ==
  IF vertices = <<>> THEN <<>>
  ELSE <<Head(vertices).x, Head(vertices).y, Head(vertices).z>>
         \o FlatPositions(Tail(vertices))

\* The geometry is its position attribute and its index (the vertex normals
\* computed from them are not represented).
createGeometryFromVertices(vertices) ==
  LET positions == FlatPositions(vertices)
      t == triangulateSurface(vertices)
  IN  IF ~t.ok THEN Err(t.err)
      ELSE Ok([positions |-> positions, index |-> t.val])

NoUserData ==
  [surfaceId |-> Null, surfaceType |-> Null, name |-> Null,
   adjacentSpaceId |-> Null]

\* A THREE.Group holding the mesh and then its wireframe.
createSurfaceMesh(surface) ==
  LET g == createGeometryFromVertices(surface.vertices)
  IN  IF ~g.ok THEN Err(g.err)
      ELSE Ok([kind |-> "Group",
               children |->
                 << [kind |-> "Mesh", geometry |-> g.val,
                     color |-> getSurfaceColor(surface.surfaceType),
                     userData |-> [surfaceId |-> surface.id,
                                   surfaceType |-> surface.surfaceType,
                                   name |-> surface.name,
                                   adjacentSpaceId |-> surface.adjacentSpaceId]],
                    [kind |-> "LineSegments", geometry |-> g.val,
                     color |-> ColorValue(0),
                     userData |-> NoUserData] >>])

Light(kind) == [kind |-> kind, children |-> <<>>]

\* The scene's children after createLights.
createLights ==
  <<Light("AmbientLight"), Light("DirectionalLight"), Light("DirectionalLight")>>

Vec(x, y, z) == [x |-> x, y |-> y, z |-> z]

MinDistance == 5

MaxDistance == 1000

\* createCamera and createControls: the camera at (0, 0, 50), the controls'
\* target at the origin.
createCamera == [position |-> Vec(Num(0), Num(0), Num(50)),
                 target |-> Vec(Num(0), Num(0), Num(0))]

\* The forEach over the vertices of one surface in calculateBoundingBox.
RECURSIVE BoxOverVertices(_, _)
BoxOverVertices(vertices, box) ==
  IF vertices = <<>> THEN box
  ELSE LET p == Head(vertices)
       IN  BoxOverVertices(Tail(vertices),
             [minX |-> JsMin(box.minX, p.x), minY |-> JsMin(box.minY, p.y),
              minZ |-> JsMin(box.minZ, p.z), maxX |-> JsMax(box.maxX, p.x),
              maxY |-> JsMax(box.maxY, p.y), maxZ |-> JsMax(box.maxZ, p.z)])

\* The forEach over the surfaces in calculateBoundingBox.
RECURSIVE BoxOverSurfaces(_, _)
BoxOverSurfaces(surfaces, box) ==
  IF surfaces = <<>> THEN box
  ELSE BoxOverSurfaces(Tail(surfaces),
                       BoxOverVertices(Head(surfaces).vertices, box))

calculateBoundingBox(surfaces) ==
  LET b == BoxOverSurfaces(surfaces,
             [minX |-> PosInf, minY |-> PosInf, minZ |-> PosInf,
              maxX |-> NegInf, maxY |-> NegInf, maxZ |-> NegInf])
  IN  [center |-> Vec(JsHalf(JsAdd(b.minX, b.maxX)),
                      JsHalf(JsAdd(b.minY, b.maxY)),
                      JsHalf(JsAdd(b.minZ, b.maxZ))),
       size |-> Vec(JsSub(b.maxX, b.minX), JsSub(b.maxY, b.minY),
                    JsSub(b.maxZ, b.minZ))]

\* controls.update() for a camera that positionCameraForBuilding has just put
\* at target + (0, 0, d): OrbitControls keeps the direction from the target
\* and clamps the distance to [minDistance, maxDistance]; at distance 0 the
\* direction is taken as straight up (phi = 0); a NaN anywhere in the target
\* or the offset makes the whole position NaN.
controlsUpdate(target, d) ==
  IF target.x.k # "fin" \/ target.y.k # "fin" \/ target.z.k # "fin"
     \/ d.k # "fin"
  THEN [position |-> Vec(NaN, NaN, NaN), target |-> target]
  ELSE IF d.v = 0
  THEN [position |-> Vec(target.x, JsAdd(target.y, Num(MinDistance)), target.z),
        target |-> target]
  ELSE LET r == IF d.v < 2 * MinDistance THEN Num(MinDistance)
                ELSE IF d.v > 2 * MaxDistance THEN Num(MaxDistance)
                ELSE d
       IN  [position |-> Vec(target.x, target.y, JsAdd(target.z, r)),
            target |-> target]

\* The camera after positionCameraForBuilding(surfaces).
positionCameraForBuilding(surfaces) ==
  LET bb == calculateBoundingBox(surfaces)
      maxDim == JsMax(JsMax(bb.size.x, bb.size.y), bb.size.z)
      distance == JsTimes2p5(maxDim)
  IN  controlsUpdate(bb.center, distance)

\* The forEach of renderSurfaces without its try and catch: the first
\* surface whose mesh cannot be built ends the loop.
RECURSIVE AddSurfaces_StopAtFailure(_, _)
AddSurfaces_StopAtFailure(children, surfaces) ==
  IF surfaces = <<>> THEN children
  ELSE LET m == createSurfaceMesh(Head(surfaces))
       IN  IF m.ok
           THEN AddSurfaces_StopAtFailure(Append(children, m.val),
                                          Tail(surfaces))
           ELSE children

\* The forEach of renderSurfaces: a surface whose mesh cannot be built is
\* skipped, every other one is added to the scene.
RECURSIVE AddSurfaces(_, _)
AddSurfaces(children, surfaces) ==
  IF surfaces = <<>> THEN children
  ELSE LET m == createSurfaceMesh(Head(surfaces))
       IN  AddSurfaces(IF m.ok THEN Append(children, m.val) ELSE children,
                       Tail(surfaces))

\* A viewer is [scene, camera, animationId]: the sequence of the scene's
\* children, the camera with the controls' target, and whether a frame
\* request is pending (animationId # null).
renderSurfaces(v, surfaces) ==
  [v EXCEPT !.scene = AddSurfaces(v.scene, surfaces),
            !.camera = positionCameraForBuilding(surfaces)]

\* The test of clearSurfaces' traversal.
IsRemovable(object) ==
  /\ object.kind = "Group"
  /\ Len(object.children) > 0
  /\ object.children[1].kind = "Mesh"
  /\ Truthy(object.children[1].userData.surfaceId)

clearSurfaces(v) ==
  [v EXCEPT !.scene = SelectSeq(v.scene, LAMBDA o : ~IsRemovable(o))]

\* new BuildingViewer(container)
createViewer ==
  [scene |-> createLights, camera |-> createCamera, animationId |-> FALSE]

\* ------------------------------------------------------------ ui-controller.js

\* The string a string-or-null value becomes when assigned to option.value.
JsToString(v) == IF v = Null THEN "null" ELSE v[1]

\* The option values of the surface dropdown after populateSurfaceDropdown:
\* the placeholder's "" and one option per surface.
RECURSIVE SurfaceOptionValues(_)
SurfaceOptionValues(surfaces) ==
  IF surfaces = <<>> THEN <<>>
  ELSE <<JsToString(Head(surfaces).id)>> \o SurfaceOptionValues(Tail(surfaces))

populateSurfaceDropdown(surfaces) == <<"">> \o SurfaceOptionValues(surfaces)

\* The space ids of the model in ascending code-unit order, the order of
\* Array.prototype.sort() on strings.
SpaceIdOrder == <<"A", "sp1", "sp2">>

StrRank(s) == CHOOSE i \in 1..Len(SpaceIdOrder) : SpaceIdOrder[i] = s

RECURSIVE SortedInsert(_, _)
SortedInsert(sorted, s) ==
  IF sorted = <<>> THEN <<s>>
  ELSE IF StrRank(s) < StrRank(Head(sorted)) THEN <<s>> \o sorted
  ELSE <<Head(sorted)>> \o SortedInsert(Tail(sorted), s)

RECURSIVE SortStrings(_, _)
SortStrings(strings, sorted) ==
  IF strings = <<>> THEN sorted
  ELSE SortStrings(Tail(strings), SortedInsert(sorted, Head(strings)))

\* The forEach of extractUniqueSpaces: the Set keeps first insertions.
RECURSIVE CollectSpaces(_, _)
CollectSpaces(surfaces, spaceIds) ==
  IF surfaces = <<>> THEN spaceIds
  ELSE LET a == Head(surfaces).adjacentSpaceId
           seen == \E i \in 1..Len(spaceIds) : spaceIds[i] = a[1]
       IN  CollectSpaces(Tail(surfaces),
                         IF Truthy(a) /\ ~seen THEN Append(spaceIds, a[1])
                         ELSE spaceIds)

\* extractUniqueSpaces without its sort().
extractUniqueSpaces_Unsorted(surfaces) == CollectSpaces(surfaces, <<>>)

extractUniqueSpaces(surfaces) == SortStrings(CollectSpaces(surfaces, <<>>), <<>>)

populateSpaceDropdown(spaceIds) == <<"">> \o spaceIds

\* ------------------------------------------------------------ inputs

\* A CartesianPoint whose three Coordinate texts are single characters.
Pt(a, b, c) == << <<a>>, <<b>>, <<c>> >>

Triangle == <<Pt("0", "0", "0"), Pt("4", "0", "0"), Pt("4", "4", "0")>>

Quad == <<Pt("0", "0", "0"), Pt("6", "0", "0"), Pt("6", "6", "2"),
          Pt("0", "6", "2")>>

Spire == <<Pt("0", "0", "0"), Pt("4", "0", "0"), Pt("2", "2", "8")>>

SurfaceEl(id, type, space, points) ==
  [id |-> id, surfaceType |-> Str(type), exposedToSun |-> Str("true"),
   name |-> Null, adjacentSpace |-> space,
   planarGeometry |-> << [polyLoop |-> <<points>>] >>]

BuildingDoc(name, surfaces) ==
  [wellFormed |-> TRUE,
   tree |-> [root |-> "Building", nested |-> {}, name |-> Str(name),
             surfaces |-> surfaces]]

NoText == [wellFormed |-> FALSE, tree |-> ParserErrorDocument]

\* The files the server holds, by path. "/sample_input.xml" is the path init()
\* loads; "/ids.xml" holds a surface without an id attribute and one whose id
\* is the empty string, in another bounding box than the first file's;
\* "/broken.xml" is not well-formed; "/other.xml" is well-formed without a
\* Building element.
ServerFiles ==
  [p \in {"/sample_input.xml", "/ids.xml", "/broken.xml", "/other.xml"} |->
     CASE p = "/sample_input.xml" ->
            BuildingDoc("Sample",
              <<SurfaceEl(Str("wall-1"), "ExteriorWall", <<Str("sp1")>>, Triangle),
                SurfaceEl(Str("roof-1"), "Roof", <<>>, Quad)>>)
       [] p = "/ids.xml" ->
            BuildingDoc("Ids",
              <<SurfaceEl(Null, "Floor", <<Str("sp2")>>, Triangle),
                SurfaceEl(Str(""), "Shade", <<Str("A")>>, Spire),
                SurfaceEl(Str("floor-2"), "Floor", <<Str("sp1")>>, Triangle)>>)
       [] p = "/broken.xml" -> NoText
       [] OTHER ->
            [wellFormed |-> TRUE,
             tree |-> [root |-> "gbXML", nested |-> {}, name |-> Null,
                       surfaces |-> <<>>]]]

\* The paths a caller asks for.
Paths == DOMAIN ServerFiles

\* How a fetch can end: the promise rejects, or resolves with a response that
\* is not ok, or with an ok response.
FetchOutcomes == {"reject", "notok", "ok"}

\* ------------------------------------------------------------ main.js

MaxLoads == 2

VARIABLES
  dom,             \* which elements the page holds: [container, controls]
  viewer,          \* this.viewer: Null or <<viewer>>
  uiController,    \* this.uiController: "null", "ready", or "broken" (init() returned false)
  surfaceOptions,  \* option values of #surface-select
  spaceOptions,    \* option values of #space-select
  selectedSpace,   \* value of #space-select ("": the placeholder)
  buildingData,    \* this.buildingData: Null or <<building>>
  isInitialized,   \* this.isInitialized
  errorShown,      \* an error div has been appended to the container
  initPc,          \* init(): "idle", "loading" (awaiting loadBuilding), "done", "failed"
  loads,           \* the loadBuilding calls in flight
  nextId,          \* the number the next loadBuilding call gets
  settled,         \* history: the loadBuilding calls that have ended
  disposed,        \* history: dispose() has been called
  frame,           \* the scene children the last rendered frame showed
  xmlText,         \* parser harness: the text given to parseBuildingXML
  parsed,          \* parser harness: Null or <<result>>
  batch,           \* viewer harness: the surfaces given to renderSurfaces
  renders,         \* viewer harness: the renderSurfaces calls made
  cleared,         \* viewer harness: the last call on the viewer was clearSurfaces
  listed           \* controller harness: Null or <<result of extractUniqueSpaces>>

vars == <<dom, viewer, uiController, surfaceOptions, spaceOptions,
          selectedSpace, buildingData,
          isInitialized, errorShown, initPc, loads, nextId, settled, disposed, frame,
          xmlText, parsed, batch, renders, cleared, listed>>

appVars == <<dom, viewer, uiController, surfaceOptions, spaceOptions,
             selectedSpace,
             buildingData, isInitialized, errorShown, initPc, loads, nextId,
             settled, disposed, frame>>

harnessVars == <<xmlText, parsed, batch, renders, cleared, listed>>

\* The groups createSurfaceMesh made, among the children of a scene.
SurfaceGroups(scene) ==
  SelectSeq(scene, LAMBDA o : /\ o.kind = "Group"
                              /\ Len(o.children) > 0
                              /\ o.children[1].kind = "Mesh")

SceneOf(v) == IF v = Null THEN <<>> ELSE v[1].scene

\* The state after the constructor of BuildingVisualizationApp, on a page
\* that holds or lacks the canvas container and the three controls.
AppInit ==
  /\ dom \in [container : BOOLEAN, controls : BOOLEAN]
  /\ viewer = Null
  /\ uiController = "null"
  /\ surfaceOptions = <<"">>
  /\ spaceOptions = <<"">>
  /\ selectedSpace = ""
  /\ buildingData = Null
  /\ isInitialized = FALSE
  /\ errorShown = FALSE
  /\ initPc = "idle"
  /\ loads = {}
  /\ nextId = 1
  /\ settled = {}
  /\ disposed = FALSE
  /\ frame = <<>>

HarnessIdle ==
  /\ xmlText = NoText
  /\ parsed = Null
  /\ batch = <<>>
  /\ renders = 0
  /\ cleared = FALSE
  /\ listed = Null

Init == AppInit /\ HarnessIdle

\* loadBuilding(filePath) up to its await: the call joins the loads in
\* flight. before and solo are history: the surface groups on screen when the
\* caller asked, and that no other load has been in flight with this one.
BeginLoad(kind, path, before) ==
  /\ loads' = {[l EXCEPT !.solo = FALSE] : l \in loads}
                \cup {[id |-> nextId, kind |-> kind, path |-> path,
                       pc |-> "fetch", before |-> before,
                       solo |-> (loads = {})]}
  /\ nextId' = nextId + 1

\* init() with this.viewer.animate() called before the load is awaited.
StartInit_AnimateFirst ==
  /\ initPc = "idle"
  /\ IF ~dom.container
     THEN \* 'Canvas container not found': showError finds no container either
          /\ initPc' = "failed"
          /\ UNCHANGED <<viewer, uiController, errorShown, loads, nextId>>
     ELSE IF ~dom.controls
     THEN \* 'Failed to initialize UI controller'
          /\ viewer' = <<createViewer>>
          /\ uiController' = "broken"
          /\ errorShown' = TRUE
          /\ initPc' = "failed"
          /\ UNCHANGED <<loads, nextId>>
     ELSE /\ viewer' = <<[createViewer EXCEPT !.animationId = TRUE]>>
          /\ uiController' = "ready"
          /\ initPc' = "loading"
          /\ BeginLoad("init", "/sample_input.xml", <<>>)
          /\ UNCHANGED errorShown
  /\ UNCHANGED <<dom, surfaceOptions, spaceOptions, selectedSpace,
                 buildingData, isInitialized, settled, disposed, frame>>
  /\ UNCHANGED harnessVars

\* init() up to its await of loadBuilding('/sample_input.xml').
StartInit ==
  /\ initPc = "idle"
  /\ IF ~dom.container
     THEN \* 'Canvas container not found': showError finds no container either
          /\ initPc' = "failed"
          /\ UNCHANGED <<viewer, uiController, errorShown, loads, nextId>>
     ELSE IF ~dom.controls
     THEN \* 'Failed to initialize UI controller'
          /\ viewer' = <<createViewer>>
          /\ uiController' = "broken"
          /\ errorShown' = TRUE
          /\ initPc' = "failed"
          /\ UNCHANGED <<loads, nextId>>
     ELSE /\ viewer' = <<createViewer>>
          /\ uiController' = "ready"
          /\ initPc' = "loading"
          /\ BeginLoad("init", "/sample_input.xml", <<>>)
          /\ UNCHANGED errorShown
  /\ UNCHANGED <<dom, surfaceOptions, spaceOptions, selectedSpace,
                 buildingData, isInitialized, settled, disposed, frame>>
  /\ UNCHANGED harnessVars

\* reloadBuilding(filePath) up to its await. Without a viewer it throws and
\* changes nothing.
ReloadBuilding(path) ==
  /\ nextId <= MaxLoads
  /\ viewer # Null
  /\ viewer' = <<clearSurfaces(viewer[1])>>
  /\ BeginLoad("reload", path, SurfaceGroups(viewer[1].scene))
  /\ UNCHANGED <<dom, uiController, surfaceOptions, spaceOptions,
                 selectedSpace, buildingData, isInitialized, errorShown,
                 initPc, settled, disposed, frame>>
  /\ UNCHANGED harnessVars

\* loadBuilding(filePath) called on the app directly, up to its await.
LoadBuilding(path) ==
  /\ nextId <= MaxLoads
  /\ initPc # "idle"
  /\ BeginLoad("load", path, SurfaceGroups(SceneOf(viewer)))
  /\ UNCHANGED <<dom, viewer, uiController, surfaceOptions, spaceOptions,
                 selectedSpace, buildingData, isInitialized, errorShown,
                 initPc, settled, disposed, frame>>
  /\ UNCHANGED harnessVars

\* The history record of a load that ended.
Ended(l, ok) ==
  [id |-> l.id, kind |-> l.kind, path |-> l.path, solo |-> l.solo, ok |-> ok]

\* loadBuilding's catch rethrows; only init() catches, and shows the error.
LoadFails(l) ==
  /\ loads' = loads \ {l}
  /\ settled' = settled \cup {Ended(l, FALSE)}
  /\ IF l.kind = "init"
     THEN initPc' = "failed" /\ errorShown' = TRUE
     ELSE UNCHANGED <<initPc, errorShown>>
  /\ UNCHANGED <<dom, nextId, isInitialized, frame, disposed>>

\* The fetch of a load in flight settles.
FetchSettles(l, outcome) ==
  /\ l \in loads
  /\ l.pc = "fetch"
  /\ outcome \in FetchOutcomes
  /\ IF outcome = "ok"
     THEN /\ loads' = (loads \ {l}) \cup {[l EXCEPT !.pc = "text"]}
          /\ UNCHANGED <<dom, nextId, isInitialized, frame, settled, disposed, initPc,
                         errorShown>>
     ELSE LoadFails(l)
  /\ UNCHANGED <<viewer, uiController, surfaceOptions, spaceOptions,
                 selectedSpace, buildingData>>
  /\ UNCHANGED harnessVars

\* The rest of init() after loadBuilding has returned: animate() renders
\* the first frame and requests the next one.
LoadSucceeds(l, v) ==
  /\ loads' = loads \ {l}
  /\ settled' = settled \cup {Ended(l, TRUE)}
  /\ IF l.kind = "init"
     THEN /\ viewer' = <<[v EXCEPT !.animationId = TRUE]>>
          /\ frame' = v.scene
          /\ isInitialized' = TRUE
          /\ initPc' = "done"
     ELSE /\ viewer' = <<v>>
          /\ UNCHANGED <<frame, isInitialized, initPc>>
  /\ UNCHANGED <<dom, nextId, errorShown, disposed>>

\* response.text() of a load in flight settles, and with the text the rest
\* of loadBuildingFromFile and of loadBuilding runs.
TextSettles(l, readable) ==
  /\ l \in loads
  /\ l.pc = "text"
  /\ LET b == parseBuildingXML(ServerFiles[l.path])
     IN  \* populateSpaceDropdown rewrites the options: the placeholder is
         \* the selected one again
         selectedSpace' = IF /\ readable
                             /\ b.ok
                             /\ viewer # Null
                             /\ uiController = "ready"
                          THEN "" ELSE selectedSpace
  /\ LET b == parseBuildingXML(ServerFiles[l.path])
     IN  IF ~readable \/ ~b.ok
         THEN /\ LoadFails(l)
              /\ UNCHANGED <<viewer, uiController, surfaceOptions,
                             spaceOptions, buildingData>>
         ELSE /\ buildingData' = <<b.val>>
              /\ IF viewer = Null
                 THEN \* this.viewer.renderSurfaces: TypeError
                      /\ LoadFails(l)
                      /\ UNCHANGED <<viewer, uiController, surfaceOptions,
                                     spaceOptions>>
                 ELSE LET v == renderSurfaces(viewer[1], b.val.surfaces)
                      IN  CASE uiController = "ready" ->
                                 /\ surfaceOptions' =
                                      populateSurfaceDropdown(b.val.surfaces)
                                 /\ spaceOptions' =
                                      populateSpaceDropdown(
                                        extractUniqueSpaces(b.val.surfaces))
                                 /\ LoadSucceeds(l, v)
                                 /\ UNCHANGED uiController
                            [] uiController = "null" ->
                                 /\ LoadSucceeds(l, v)
                                 /\ UNCHANGED <<uiController, surfaceOptions,
                                                spaceOptions>>
                            [] OTHER ->
                                 \* this.surfaceSelect is null: TypeError
                                 /\ viewer' = <<v>>
                                 /\ LoadFails(l)
                                 /\ UNCHANGED <<uiController, surfaceOptions,
                                                spaceOptions>>
  /\ UNCHANGED harnessVars

\* One run of animate() from the frame request.
AnimationFrame ==
  /\ viewer # Null
  /\ viewer[1].animationId
  /\ frame' = viewer[1].scene
  /\ UNCHANGED <<dom, viewer, uiController, surfaceOptions, spaceOptions,
                 selectedSpace, buildingData, isInitialized, errorShown, initPc, loads,
                 nextId, settled, disposed>>
  /\ UNCHANGED harnessVars

\* dispose(). With a controller whose init() failed, resetSelections throws
\* and the rest of dispose() does not run.
Dispose ==
  /\ initPc # "idle"
  /\ viewer' = Null
  /\ disposed' = TRUE
  /\ IF uiController = "broken"
     THEN UNCHANGED <<uiController, selectedSpace, buildingData,
                      isInitialized>>
     ELSE /\ uiController' = "null"
          /\ selectedSpace' = IF uiController = "ready" THEN ""
                              ELSE selectedSpace
          /\ buildingData' = Null
          /\ isInitialized' = FALSE
  /\ UNCHANGED <<dom, surfaceOptions, spaceOptions, errorShown, initPc, loads,
                 nextId, settled, frame>>
  /\ UNCHANGED harnessVars

Next ==
  \/ StartInit
  \/ \E p \in Paths : ReloadBuilding(p)
  \/ \E p \in Paths : LoadBuilding(p)
  \/ \E l \in loads : \E o \in FetchOutcomes : FetchSettles(l, o)
  \/ \E l \in loads : \E r \in BOOLEAN : TextSettles(l, r)
  \/ AnimationFrame
  \/ Dispose

Spec == Init /\ [][Next]_vars

\* The change listener of #space-select after the user picks the option s:
\* the handler set by setupUIHandlers logs the space id and does nothing
\* else.
SpaceSelected(s) ==
  /\ uiController = "ready"
  /\ \E i \in 1..Len(spaceOptions) : spaceOptions[i] = s
  /\ s # selectedSpace
  /\ selectedSpace' = s
  /\ UNCHANGED <<dom, viewer, uiController, surfaceOptions, spaceOptions,
                 buildingData, isInitialized, errorShown, initPc, loads,
                 nextId, settled, disposed, frame>>
  /\ UNCHANGED harnessVars

\* The click listener of #reset-button: the handler calls resetSelections.
ResetClicked ==
  /\ uiController = "ready"
  /\ selectedSpace' = ""
  /\ UNCHANGED <<dom, viewer, uiController, surfaceOptions, spaceOptions,
                 buildingData, isInitialized, errorShown, initPc, loads,
                 nextId, settled, disposed, frame>>
  /\ UNCHANGED harnessVars

\* The application with a user at the controls.
NextUI ==
  \/ Next
  \/ \E s \in {""} \cup {SpaceIdOrder[i] : i \in 1..Len(SpaceIdOrder)} :
       SpaceSelected(s)
  \/ ResetClicked

SpecUI == Init /\ [][NextUI]_vars

\* ------------------------------------------------------------ parser harness

MaxSurfaces == 3

MaxPoints == 4

MaxCoords == 4

\* Coordinate texts: "7", "-2", "abc", " 3x" and the empty text.
CoordTexts ==
  {<<"7">>, <<"-", "2">>, <<"a", "b", "c">>, <<" ", "3", "x">>, <<>>}

\* Well-formed points, enough for every loop and vertex ring of the model.
BaseRing ==
  <<Pt("0", "0", "0"), Pt("4", "0", "0"), Pt("4", "4", "0"), Pt("0", "4", "0"),
    Pt("2", "6", "0"), Pt("2", "2", "8"), Pt("1", "3", "5"), Pt("3", "1", "5"),
    Pt("5", "5", "5")>>

MissingGeometry(id) ==
  [id |-> Str(id), surfaceType |-> Str("Roof"), exposedToSun |-> Null,
   name |-> Null, adjacentSpace |-> <<>>, planarGeometry |-> <<>>]

MissingPolyLoop(id) ==
  [MissingGeometry(id) EXCEPT !.planarGeometry = << [polyLoop |-> <<>>] >>]

\* Surface elements, told apart by their ids, for documents of several: two
\* that pass every rule and one for each way of failing.
DocElems ==
  {SurfaceEl(Str("a"), "Roof", <<>>, Triangle),
   SurfaceEl(Str("b"), "Floor", <<Str("sp1")>>, Quad),
   MissingGeometry("c"),
   MissingPolyLoop("d"),
   SurfaceEl(Str("e"), "Roof", <<>>, SubSeq(Triangle, 1, 2)),
   SurfaceEl(Str("f"), "Roof", <<>>,
             [Triangle EXCEPT ![2] = << <<"7">>, <<"7">> >>]),
   SurfaceEl(Str("g"), "Roof", <<>>,
             [Triangle EXCEPT ![3] = << <<"7">>, <<"a", "b", "c">>, <<"7">> >>])}

\* The text is not well-formed.
IsMalformedText(text) == text = NoText

\* The text is a document of up to MaxSurfaces elements of DocElems under a
\* Building or another root, with or without a Building or a parsererror
\* element below the root.
IsSmallDocument(text) ==
  \E r \in {"Building", "gbXML"} :
    \E ns \in {{}, {"Building"}, {"parsererror"}} :
      \E n \in 0..MaxSurfaces :
        \E ss \in [1..n -> DocElems] :
          text = [wellFormed |-> TRUE,
                  tree |-> [root |-> r, nested |-> ns, name |-> Str("B"),
                            surfaces |-> ss]]

\* The text is a Building document of one Surface element whose PolyLoop has
\* 2..MaxPoints well-formed points, one of them replaced by a CartesianPoint
\* of 2..MaxCoords Coordinate children with any of the texts.
IsOneSurfaceDocument(text) ==
  \E n \in 2..MaxPoints :
    \E i \in 1..n :
      \E k \in 2..MaxCoords :
        \E p \in [1..k -> CoordTexts] :
          text = BuildingDoc("B",
                   <<SurfaceEl(Str("s"), "Roof", <<>>,
                               [SubSeq(BaseRing, 1, n) EXCEPT ![i] = p])>>)

AppIdle ==
  /\ AppInit
  /\ dom = [container |-> TRUE, controls |-> TRUE]

InitParser ==
  /\ AppIdle
  /\ \/ IsMalformedText(xmlText)
     \/ IsSmallDocument(xmlText)
     \/ IsOneSurfaceDocument(xmlText)
  /\ parsed = Null
  /\ batch = <<>>
  /\ renders = 0
  /\ cleared = FALSE
  /\ listed = Null

\* parseBuildingXML(xmlText), called once.
ParseText ==
  /\ parsed = Null
  /\ parsed' = <<parseBuildingXML(xmlText)>>
  /\ UNCHANGED <<xmlText, batch, renders, cleared, listed>>
  /\ UNCHANGED appVars

SpecParser == InitParser /\ [][ParseText]_vars

\* ------------------------------------------------------------ viewer harness

MaxVerts == 5

MaxBatch == 2

MaxRenders == 2

\* The vertices parseSurface gives for the first n points of BaseRing.
VertexRing(n) == ExtractPoints(SubSeq(BaseRing, 1, n), <<>>).val

\* A surface object built by hand, as a test would.
HandSurface(id, type, n) ==
  [id |-> id, surfaceType |-> type, exposedToSun |-> FALSE, name |-> Null,
   adjacentSpaceId |-> Null, vertices |-> VertexRing(n)]

\* The surfaceType values tried: the eight of the table, one unknown to it,
\* the empty string, two names of inherited object properties, and null.
SurfaceTypes ==
  {Str(t) : t \in DOMAIN colorMap \cup {"Skylight", "", "constructor", "toString"}}
    \cup {Null}

\* Surfaces of 0..MaxVerts vertices with the id "a", triangles of every
\* surfaceType, a triangle with no id, one with an empty id, and the unit
\* quad.
\* The unit quad (0,0,0), (1,0,0), (1,1,0), (0,1,0).
UnitQuad ==
  [HandSurface(Str("u"), Str("Roof"), 0) EXCEPT
     !.vertices = ExtractPoints(<<Pt("0", "0", "0"), Pt("1", "0", "0"),
                                  Pt("1", "1", "0"), Pt("0", "1", "0")>>,
                                <<>>).val]

HandSurfaces ==
  {HandSurface(Str("a"), Str("Roof"), n) : n \in 0..MaxVerts}
    \cup {HandSurface(Str("a"), t, 3) : t \in SurfaceTypes}
    \cup {HandSurface(id, Str("Roof"), 3) : id \in {Null, Str("")}}
    \cup {UnitQuad}

InitViewer ==
  /\ AppIdle
  /\ xmlText = NoText
  /\ parsed = Null
  /\ \E n \in 0..MaxBatch : batch \in [1..n -> HandSurfaces]
  /\ renders = 0
  /\ cleared = FALSE
  /\ listed = Null

\* new BuildingViewer(container), by the harness.
CreateViewer ==
  /\ viewer = Null
  /\ viewer' = <<createViewer>>
  /\ UNCHANGED <<dom, uiController, surfaceOptions, spaceOptions,
                 selectedSpace, buildingData, isInitialized, errorShown,
                 initPc, loads, nextId, settled, disposed, frame>>
  /\ UNCHANGED harnessVars

\* viewer.renderSurfaces(batch)
RenderBatch ==
  /\ viewer # Null
  /\ renders < MaxRenders
  /\ viewer' = <<renderSurfaces(viewer[1], batch)>>
  /\ renders' = renders + 1
  /\ cleared' = FALSE
  /\ UNCHANGED <<xmlText, parsed, batch, listed>>
  /\ UNCHANGED <<dom, uiController, surfaceOptions, spaceOptions,
                 selectedSpace, buildingData, isInitialized, errorShown,
                 initPc, loads, nextId, settled, disposed, frame>>

\* viewer.clearSurfaces()
ClearScene ==
  /\ viewer # Null
  /\ viewer' = <<clearSurfaces(viewer[1])>>
  /\ UNCHANGED <<dom, uiController, surfaceOptions, spaceOptions,
                 selectedSpace, buildingData, isInitialized, errorShown,
                 initPc, loads, nextId, settled, disposed, frame>>
  /\ cleared' = TRUE
  /\ UNCHANGED <<xmlText, parsed, batch, renders, listed>>

NextViewer == CreateViewer \/ RenderBatch \/ ClearScene

SpecViewer == InitViewer /\ [][NextViewer]_vars

\* ------------------------------------------------------------ controller harness

MaxSpaceSurfaces == 3

\* The spaceIdRef values tried: none (no AdjacentSpaceId element or no
\* attribute), the empty string and the three space ids.
SpaceRefs == {Null, Str("")} \cup {Str(SpaceIdOrder[i]) : i \in 1..Len(SpaceIdOrder)}

\* A surface as parseSurface returns it, next to the space a.
SurfaceBy(a) ==
  [HandSurface(Str("a"), Str("Roof"), 3) EXCEPT !.adjacentSpaceId = a]

InitSpaces ==
  /\ AppIdle
  /\ xmlText = NoText
  /\ parsed = Null
  /\ \E n \in 0..MaxSpaceSurfaces :
       \E refs \in [1..n -> SpaceRefs] :
         batch = [i \in 1..n |-> SurfaceBy(refs[i])]
  /\ renders = 0
  /\ cleared = FALSE
  /\ listed = Null

\* uiController.extractUniqueSpaces(batch), called once.
ListSpaces ==
  /\ listed = Null
  /\ listed' = <<extractUniqueSpaces(batch)>>
  /\ UNCHANGED <<xmlText, parsed, batch, renders, cleared>>
  /\ UNCHANGED appVars

SpecSpaces == InitSpaces /\ [][ListSpaces]_vars

\* ------------------------------------------------------------ claims on the application

\* The load l, in flight before a step, has ended with result ok after it.
EndsWith(l, ok) == l \in loads /\ Ended(l, ok) \in settled' /\ Ended(l, ok) \notin settled

\* The surface groups renderSurfaces makes of the building in the file at path.
GroupsOfFile(path) ==
  LET b == parseBuildingXML(ServerFiles[path])
  IN  IF b.ok THEN AddSurfaces(<<>>, b.val.surfaces) ELSE <<>>

\* C1: when a reloadBuilding call fails (the fetch rejects or is not ok, the
\* text is malformed or holds no Building), the surface groups in the scene
\* after the failure are those rendered before the reload was requested. The
\* reload is taken with no other load in flight beside it and the viewer
\* still there.
C1_FailedReloadKeepsScene ==
  [][\A l \in loads :
       (l.kind = "reload" /\ l.solo /\ EndsWith(l, FALSE)
        /\ uiController = "ready" /\ viewer' # Null)
       => SurfaceGroups(viewer'[1].scene) = l.before]_vars

\* C2: last request wins. A load that ends when a newer one has started adds
\* nothing to the scene, to buildingData or to the dropdowns; and once two
\* overlapping loads have both ended, the newer one with success, the scene
\* holds the surface groups of the newer one only.
C2_OlderAddsNothing ==
  \A l \in loads :
    (l.id < nextId - 1 /\ \E ok \in BOOLEAN : EndsWith(l, ok))
    => /\ SurfaceGroups(SceneOf(viewer')) = SurfaceGroups(SceneOf(viewer))
       /\ buildingData' = buildingData
       /\ surfaceOptions' = surfaceOptions
       /\ spaceOptions' = spaceOptions

C2_NewestOnly ==
  (/\ loads = {}
   /\ viewer # Null
   /\ Cardinality(settled) = 2
   /\ \A e \in settled : ~e.solo)
  => \A e \in settled :
       (e.id = nextId - 1 /\ e.ok)
       => SurfaceGroups(viewer[1].scene) = GroupsOfFile(e.path)

C2_LastRequestWins == [][C2_OlderAddsNothing]_vars /\ []C2_NewestOnly

\* C3: a frame rendered while a reloadBuilding call is in flight shows either
\* all the surface groups of the scene the reload replaces or all those of
\* the building it loads, nothing in between.
C3_FramesSeeWholeGenerations ==
  [][AnimationFrame =>
       \A l \in loads :
         (l.kind = "reload" /\ l.solo)
         => \/ SurfaceGroups(frame') = l.before
            \/ SurfaceGroups(frame') = GroupsOfFile(l.path)]_vars

\* ------------------------------------------------------------ claims on the parser

\* The Surface elements of the document the text stands for.
ElementsOf(text) == parseFromString(text).surfaces

\* A CartesianPoint resolves to exactly 3 numeric coordinates.
PointResolves(point) ==
  /\ Len(point) = 3
  /\ \A i \in 1..3 : parseFloat(point[i]).k = "fin"

\* The validation rules of a Surface element: a geometry container, a point
\* loop of at least 3 points, each point 3 numeric coordinates.
PassesValidation(el) ==
  /\ el.planarGeometry # <<>>
  /\ el.planarGeometry[1].polyLoop # <<>>
  /\ LET points == el.planarGeometry[1].polyLoop[1]
     IN  /\ Len(points) >= 3
         /\ \A i \in 1..Len(points) : PointResolves(points[i])

\* A Surface element has a CartesianPoint that does not resolve.
HasBadPoint(el) ==
  /\ el.planarGeometry # <<>>
  /\ el.planarGeometry[1].polyLoop # <<>>
  /\ \E i \in 1..Len(el.planarGeometry[1].polyLoop[1]) :
       ~PointResolves(el.planarGeometry[1].polyLoop[1][i])

IdsOf(seq) == [i \in 1..Len(seq) |-> seq[i].id]

Returned == parsed # Null /\ parsed[1].ok

\* C5: the surfaces of a parsed Building are, in document order, the Surface
\* elements that pass validation: as many as there are Surface elements less
\* those that fail, none removed or moved by an invalid one.
C5_ValidSubsequence ==
  Returned =>
    LET valid == SelectSeq(ElementsOf(xmlText), PassesValidation)
    IN  /\ Len(parsed[1].val.surfaces) = Len(valid)
        /\ IdsOf(parsed[1].val.surfaces) = IdsOf(valid)

\* C6: a Surface element with a CartesianPoint that does not resolve to 3
\* numeric coordinates is left out of the Building, so every vertex of a
\* parsed Building has three coordinates that are numbers.
C6_BadPointsSkipped ==
  Returned =>
    LET surfaces == parsed[1].val.surfaces
        kept == SelectSeq(ElementsOf(xmlText), LAMBDA el : ~HasBadPoint(el))
    IN  /\ Len(surfaces) <= Len(kept)
        /\ \A i \in 1..Len(surfaces) :
             \A j \in 1..Len(surfaces[i].vertices) :
               LET p == surfaces[i].vertices[j]
               IN  IsNumeric(p.x) /\ IsNumeric(p.y) /\ IsNumeric(p.z)

\* C7 as claimed: parseBuildingXML throws when the text is not well-formed or
\* the root element is not a Building, and returns a Building only for a
\* Building root.
C7_RootBuildingRequired ==
  parsed # Null =>
    /\ (~xmlText.wellFormed \/ xmlText.tree.root # "Building") => ~parsed[1].ok
    /\ parsed[1].ok => (xmlText.wellFormed /\ xmlText.tree.root = "Building")

\* The document holds a Building element, as its root or below it.
HoldsBuilding(tree) == tree.root = "Building" \/ "Building" \in tree.nested

\* C7 as amended: parseBuildingXML throws when the text is not well-formed or
\* the document holds no Building element anywhere, and returns a Building
\* only for a well-formed text that holds one.
C7_BuildingElementRequired ==
  parsed # Null =>
    /\ (~xmlText.wellFormed \/ ~HoldsBuilding(xmlText.tree)) => ~parsed[1].ok
    /\ parsed[1].ok => (xmlText.wellFormed /\ HoldsBuilding(xmlText.tree))

\* A Building with surfaces has been returned for a document whose root is
\* no Building.
C7_Witness ==
  /\ Returned
  /\ xmlText.tree.root # "Building"
  /\ Len(parsed[1].val.surfaces) > 0

\* ------------------------------------------------------------ claims on the viewer

GroupsInScene == SurfaceGroups(SceneOf(viewer))

\* The number of vertices of the mesh of a surface group.
VertexCount(group) == Len(group.children[1].geometry.positions) \div 3

\* C4: after clearSurfaces() the scene holds no surface group of whatever was
\* rendered before, whatever the ids (absent and empty ones too); the lights
\* are all that remains.
C4_ClearRemovesEveryGroup ==
  [][ClearScene => viewer'[1].scene = createLights]_vars

C9_NoMeshUnderThreeVertices ==
  /\ \A i \in 1..Len(batch) :
       Len(batch[i].vertices) < 3
       => /\ ~triangulateSurface(batch[i].vertices).ok
          /\ ~createGeometryFromVertices(batch[i].vertices).ok
          /\ ~createSurfaceMesh(batch[i]).ok
  /\ \A g \in 1..Len(GroupsInScene) : VertexCount(GroupsInScene[g]) >= 3
  /\ Len(GroupsInScene)
       <= renders * Len(SelectSeq(batch, LAMBDA b : Len(b.vertices) >= 3))

\* A batch with a surface of fewer than 3 vertices and one of at least 3 has
\* been rendered.
C9_Witness ==
  /\ renders > 0
  /\ Len(GroupsInScene) > 0
  /\ \E i \in 1..Len(batch) : Len(batch[i].vertices) < 3

\* C10: the colour of a mesh is the table's colour for the eight surface
\* types of the table and the default gray for every other surfaceType,
\* null included.
C10_ColorTotal ==
  \A g \in 1..Len(GroupsInScene) :
    LET mesh == GroupsInScene[g].children[1]
        key == ToPropertyKey(mesh.userData.surfaceType)
    IN  /\ mesh.color.t = "number"
        /\ mesh.color.n = IF key \in DOMAIN colorMap THEN colorMap[key]
                          ELSE DefaultGray

\* ------------------------------------------------------------ claims on the framing

\* Every surface has at least 3 vertices, each of three finite coordinates.
AllFinite(surfaces) ==
  \A i \in 1..Len(surfaces) :
    /\ Len(surfaces[i].vertices) >= 3
    /\ \A j \in 1..Len(surfaces[i].vertices) :
         LET p == surfaces[i].vertices[j]
         IN  p.x.k = "fin" /\ p.y.k = "fin" /\ p.z.k = "fin"

\* The values (in halves) of one coordinate over every vertex of the surfaces.
CoordsOf(surfaces, axis) ==
  UNION {{surfaces[i].vertices[j][axis].v : j \in 1..Len(surfaces[i].vertices)} :
           i \in 1..Len(surfaces)}

MinOf(S) == CHOOSE m \in S : \A n \in S : m <= n

MaxOf(S) == CHOOSE m \in S : \A n \in S : m >= n

\* The midpoint of the bounding box along one axis, in halves.
MidOf(surfaces, axis) ==
  (MinOf(CoordsOf(surfaces, axis)) + MaxOf(CoordsOf(surfaces, axis))) \div 2

ExtentOf(surfaces, axis) ==
  MaxOf(CoordsOf(surfaces, axis)) - MinOf(CoordsOf(surfaces, axis))

\* 2.5 times the largest of the three extents, in halves.
DistanceOf(surfaces) ==
  (MaxOf({ExtentOf(surfaces, "x"), ExtentOf(surfaces, "y"),
          ExtentOf(surfaces, "z")}) * 5) \div 2

\* C11: for a non-empty sequence of surfaces (here each of at least 3
\* vertices with finite coordinates), the framing has the controls' target
\* at the midpoint of the bounding box of all the vertices, axis by axis,
\* and the camera at the target + (0, 0, distance), distance being 2.5 times
\* the largest extent of the box.
C11_FramingIsBoxMidpoint ==
  (renders > 0 /\ batch # <<>> /\ AllFinite(batch) /\ viewer # Null)
  => LET c == Vec(Fin(MidOf(batch, "x")), Fin(MidOf(batch, "y")),
                  Fin(MidOf(batch, "z")))
     IN  /\ viewer[1].camera.target = c
         /\ viewer[1].camera.position =
              Vec(c.x, c.y, Fin(c.z.v + DistanceOf(batch)))

\* C12: renderSurfaces of no surfaces fails and leaves the camera and the
\* controls' target as they were, setting neither from the empty box.
C12_EmptyBatchLeavesCamera ==
  [][(RenderBatch /\ batch = <<>>)
     => viewer'[1].camera = viewer[1].camera]_vars

\* The vertices of the mesh of a surface group, from its position attribute.
VerticesOf(group) ==
  LET positions == group.children[1].geometry.positions
  IN  [j \in 1..(Len(positions) \div 3) |->
         Vec(positions[3 * j - 2], positions[3 * j - 1], positions[3 * j])]

\* The surfaces present in a scene, as far as the framing reads them.
SurfacesIn(scene) ==
  LET groups == SurfaceGroups(scene)
  IN  [g \in 1..Len(groups) |-> [vertices |-> VerticesOf(groups[g])]]

\* C13: when the renderSurfaces call of an initial load or of a reload has
\* completed, the camera and the controls' target are the framing computed
\* over exactly the surfaces then present in the scene.
C13_FramingMatchesScene ==
  [][\A l \in loads :
       (l.kind \in {"init", "reload"} /\ EndsWith(l, TRUE) /\ viewer' # Null)
       => viewer'[1].camera
            = positionCameraForBuilding(SurfacesIn(viewer'[1].scene))]_vars

\* ------------------------------------------------------------ claims on the scene

\* C14: rendering a batch, clearing and rendering the same batch again
\* leaves the surface groups of the first rendering, one per rendered
\* surface, however often the cycle is repeated.
C14_ClearAndRenderAgain ==
  [][(RenderBatch /\ renders >= 1 /\ cleared)
     => SurfaceGroups(viewer'[1].scene) = AddSurfaces(<<>>, batch)]_vars

\* ------------------------------------------------------------ claims on the controller

\* The place of a string in ascending lexicographic order, the empty string
\* first.
LexRank(s) == IF s = "" THEN 0 ELSE StrRank(s)

\* seq holds exactly the strings of S, each once, in ascending order.
IsAscendingListOf(seq, S) ==
  /\ {seq[i] : i \in 1..Len(seq)} = S
  /\ \A i \in 1..(Len(seq) - 1) : LexRank(seq[i]) < LexRank(seq[i + 1])

\* The input in every order gives the result the input gave.
SameForEveryOrder ==
  \A p \in Permutations(1..Len(batch)) :
    extractUniqueSpaces([i \in 1..Len(batch) |-> batch[p[i]]]) = listed[1]

Registers(i, id) == batch[i].id = id /\ createSurfaceMesh(batch[i]).ok

\* The index in the batch of the last such surface.
LastWith(id) ==
  CHOOSE i \in 1..Len(batch) :
    /\ Registers(i, id)
    /\ \A j \in (i + 1)..Len(batch) : ~Registers(j, id)

\* C16: after one rendering of a batch, the scene holds at most one group
\* for a surface id, and it is the group of the last surface of the batch
\* with that id (of those a mesh can be built of).
C16_LastWriteWinsPerId ==
  (renders = 1 /\ viewer # Null)
  => \A g \in 1..Len(GroupsInScene) :
       LET id == GroupsInScene[g].children[1].userData.surfaceId
       IN  id # Null
           => /\ \A h \in 1..Len(GroupsInScene) :
                    GroupsInScene[h].children[1].userData.surfaceId = id
                    => h = g
              /\ GroupsInScene[g] = createSurfaceMesh(batch[LastWith(id)]).val

\* ------------------------------------------------------------ claims on the controls

\* The ids of the surfaces of a loaded building next to the space.
surfacesInSpace(data, spaceId) ==
  IF data = Null THEN <<>>
  ELSE IdsOf(SelectSeq(data[1].surfaces,
                       LAMBDA b : b.adjacentSpaceId = Str(spaceId)))

\* The ids of the surfaces a scene shows.
ShownIds(scene) ==
  [g \in 1..Len(SurfaceGroups(scene)) |->
     SurfaceGroups(scene)[g].children[1].userData.surfaceId]

\* C17: when a space id is selected in the space dropdown, the surfaces the
\* scene shows become those whose adjacentSpaceId is the selected id.
C17_SelectionFiltersScene ==
  [][(selectedSpace' # selectedSpace /\ selectedSpace' # "")
     => ShownIds(SceneOf(viewer')) = surfacesInSpace(buildingData', selectedSpace')]_vars

\* ------------------------------------------------------------ claims on errors and start-up

\* The load in flight ends with this step by a fatal load error: its fetch
\* fails or is not ok, or its text is malformed or holds no Building.
FailsFatally(l) ==
  /\ EndsWith(l, FALSE)
  /\ l.pc = "fetch" \/ ~parseBuildingXML(ServerFiles[l.path]).ok

\* C18: a fatal load error, in the load of init() or in a reloadBuilding,
\* ends the load with none of its surfaces rendered and with an error
\* message on the page.
C18_FatalErrorsAreShown ==
  [][\A l \in loads :
       (l.kind \in {"init", "reload"} /\ FailsFatally(l))
       => /\ SurfaceGroups(SceneOf(viewer')) = SurfaceGroups(SceneOf(viewer))
          /\ errorShown']_vars

\* The animation loop is running.
LoopRuns == viewer # Null /\ viewer[1].animationId

\* The load of init() has ended with success.
InitLoadDone == \E e \in settled : e.kind = "init" /\ e.ok

\* C20: the animation loop runs, and a frame has been rendered, only after
\* the load of init() has ended with success; isInitialized is true only
\* with the loop running; and when the container or a control is missing,
\* or the load of init() has failed, no frame was ever rendered, no loop
\* runs and isInitialized is false.
C20_InitOrder ==
  /\ (LoopRuns \/ frame # <<>>) => InitLoadDone
  /\ isInitialized => LoopRuns
  /\ (~dom.container \/ ~dom.controls \/ initPc = "failed")
     => (~LoopRuns /\ frame = <<>> /\ ~isInitialized)

\* init() has run to its end: the loop runs and isInitialized is true.
C20_Witness == isInitialized /\ LoopRuns /\ frame # <<>> /\ initPc = "done"

\* ------------------------------------------------------------ claims on rendering

\* The groups of the surfaces of the batch a mesh can be built of, in the
\* order of the batch.
MeshedOf(surfaces) ==
  LET meshable == SelectSeq(surfaces, LAMBDA b : createSurfaceMesh(b).ok)
  IN  [i \in 1..Len(meshable) |-> createSurfaceMesh(meshable[i]).val]

\* C19: a renderSurfaces call adds to the scene one group for each surface
\* of the batch that meshes and none for those that fail; a failure neither
\* keeps a later surface from being rendered nor ends the call.
C19_FailuresAreIsolated ==
  [][RenderBatch
     => SurfaceGroups(viewer'[1].scene)
          = SurfaceGroups(viewer[1].scene) \o MeshedOf(batch)]_vars

\* A batch whose first surface fails to mesh and whose second one meshes
\* has been rendered, and the scene holds a group.
C19_Witness ==
  /\ renders > 0
  /\ Len(batch) = 2
  /\ ~createSurfaceMesh(batch[1]).ok
  /\ createSurfaceMesh(batch[2]).ok
  /\ viewer # Null
  /\ Len(SurfaceGroups(viewer[1].scene)) > 0

\* ------------------------------------------------------------ claims on consistency and disposal

\* The option values the ids of the surfaces make.
OptionValuesOf(ids) == [i \in 1..Len(ids) |-> JsToString(ids[i])]

\* C21: with no load in flight (the viewer and the controller there), the
\* options of the surface dropdown after the placeholder are the ids of
\* buildingData.surfaces, and these are the ids of the surfaces the scene
\* holds.
C21_DropdownDataSceneAgree ==
  (loads = {} /\ viewer # Null /\ uiController = "ready")
  => LET ids == IF buildingData = Null THEN <<>>
                ELSE IdsOf(buildingData[1].surfaces)
     IN  /\ Tail(surfaceOptions) = OptionValuesOf(ids)
         /\ ShownIds(viewer[1].scene) = ids

\* C22: once dispose() has been called, viewer and buildingData are null
\* and isInitialized is false in every later state, also when a load that
\* was in flight completes: it stores no building data and renders nothing.
C22_DisposedStaysDisposed ==
  disposed => (viewer = Null /\ buildingData = Null /\ ~isInitialized)

====
